---- MODULE Spec2Model ----
(***************************************************************************)
(* Fast-track land suitability for avocado (Avocado_suitability2-shr.py).  *)
(*                                                                         *)
(* The script is a straight-line program over numpy arrays.  The model     *)
(* runs it statement by statement: pc is the index of the next statement   *)
(* of Program, heap holds the ndarray objects, env binds the script's      *)
(* variable names to heap objects, file holds the rasters on disk.         *)
(*                                                                         *)
(* Cell values are fixed-point numbers in thousandths of the source unit   *)
(* (300 mm is 300000, pH 5.8 is 5800, 112.5 degrees is 112500), so the     *)
(* literals 0, 1, 2 and -99 the script writes into the float arrays are    *)
(* 0, 1000, 2000 and -99000 here.                                          *)
(*                                                                         *)
(* Left out: line 78 (dem is read and never used), the saveRaster calls    *)
(* and the matplotlib cells (they read the arrays and write files or the   *)
(* screen; they assign nothing the script reads again).                    *)
(***************************************************************************)
EXTENDS Integers, Sequences, FiniteSets, TLC

VARIABLES pc, heap, env, file, raised, labelled

vars == <<pc, heap, env, file, raised, labelled>>

\* ---------------------------------------------------------------- bounds
\* Largest height and width of the reference grid in the shape family.
MaxH == 2
MaxW == 2

\* ------------------------------------------------------------- thresholds
rainfall_opt_max == 2000000
rainfall_opt_min == 500000
rainfall_abs_max == 2500000
rainfall_abs_min == 300000
temperature_opt_max == 40000
temperature_abs_max == 45000
temperature_opt_min == 14000
temperature_abs_min == 10000
slope_abs_max == 15000
slope_opt_max == 2000
aspect_min == 112500
aspect_max == 202500
ph_opt_max == 5800
ph_opt_min == 5000
ph_abs_max == 7000
ph_abs_min == 4500

\* The literals the script writes into the arrays.
NotSuitable == 0
Moderate == 1000
Suitable == 2000
AspectMarker == -99000
PhNoData == -999000

Classes == {NotSuitable, Moderate, Suitable}

\* ------------------------------------------------------------------ names
Factors == {"precip", "tmax", "tmin", "slope", "aspect", "ph"}

Suit(f) == f \o "_suitability"

SuitNames == {Suit(f) : f \in Factors}

Names == Factors \cup SuitNames \cup {"test", "combined", "result"}

\* ------------------------------------------------------------------ grids
\* A 2-D ndarray: its shape <<height, width>> and one value per cell.
Cells(shape) == (1..shape[1]) \X (1..shape[2])

Fill(shape, x) == [shape |-> shape, v |-> [c \in Cells(shape) |-> x]]

Dec(n) == IF n > 0 THEN n - 1 ELSE 0

\* a[:-1, :-1]: the array without its last row and its last column.
TrimLast(g) ==
    LET s == <<Dec(g.shape[1]), Dec(g.shape[2])>>
    IN  [shape |-> s, v |-> [c \in Cells(s) |-> g.v[c]]]

\* ------------------------------------------- conditions of the overwrites
\* Each is the boolean mask of one "a[mask] = literal" statement, applied to
\* the CURRENT value of the cell of the array being overwritten.

\* line 140
precip_not_suitable(v) == v >= rainfall_abs_max \/ v < rainfall_abs_min

\* line 141
precip_moderate(v) ==
    \/ (v >= rainfall_abs_min /\ v < rainfall_opt_min)
    \/ (v >= rainfall_opt_max /\ v < rainfall_abs_max)

\* line 142
precip_suitable(v) == v >= rainfall_opt_min /\ v <= rainfall_opt_max

\* line 172
tmax_suitable(v) == v < temperature_opt_max

\* line 173
tmax_moderate(v) == v >= temperature_opt_max /\ v < temperature_abs_max

\* line 174
tmax_not_suitable(v) == v >= temperature_abs_max

\* line 202
tmin_not_suitable(v) == v < temperature_abs_min

\* line 203
tmin_moderate(v) == v >= temperature_abs_min /\ v < temperature_opt_min

\* line 204
tmin_suitable(v) == v >= temperature_opt_min

\* line 238
slope_suitable(v) == v <= slope_opt_max

\* Faulty variant of line 239: the lower comparison not strict.
slope_moderate_closed(v) == v >= slope_opt_max /\ v < slope_abs_max

\* line 239
slope_moderate(v) == v > slope_opt_max /\ v < slope_abs_max

\* line 240
slope_not_suitable(v) == v >= slope_abs_max

\* line 273
aspect_in_band(v) == v > aspect_min /\ v < aspect_max

\* line 274
aspect_non_negative(v) == v >= 0

\* line 275
aspect_is_marker(v) == v = AspectMarker

\* line 307
ph_is_no_data(v) == v = PhNoData

\* line 308
ph_below_abs_min(v) == v < ph_abs_min

\* line 309
ph_low_moderate(v) == v >= ph_abs_min /\ v < ph_opt_min

\* line 310
ph_suitable(v) == v >= ph_opt_min /\ v < ph_opt_max

\* Faulty variant of line 311: the lower comparison strict.
ph_high_moderate_open(v) == v > ph_opt_max /\ v < ph_abs_max

\* line 311
ph_high_moderate(v) == v >= ph_opt_max /\ v < ph_abs_max

\* line 312
ph_not_suitable(v) == v >= ph_abs_max

\* lines 335-340: the mask "x_suitability == 0"
is_zero(v) == v = 0

\* Faulty variant of line 342: the mask "test >= 0".
is_not_negative(v) == v >= 0

\* line 342: the mask "test > 0"
is_positive(v) == v > 0

Cond(line, v) ==
    CASE line = 140 -> precip_not_suitable(v)
      [] line = 141 -> precip_moderate(v)
      [] line = 142 -> precip_suitable(v)
      [] line = 172 -> tmax_suitable(v)
      [] line = 173 -> tmax_moderate(v)
      [] line = 174 -> tmax_not_suitable(v)
      [] line = 202 -> tmin_not_suitable(v)
      [] line = 203 -> tmin_moderate(v)
      [] line = 204 -> tmin_suitable(v)
      [] line = 238 -> slope_suitable(v)
      [] line = 239 -> slope_moderate(v)
      [] line = 240 -> slope_not_suitable(v)
      [] line = 273 -> aspect_in_band(v)
      [] line = 274 -> aspect_non_negative(v)
      [] line = 275 -> aspect_is_marker(v)
      [] line = 307 -> ph_is_no_data(v)
      [] line = 308 -> ph_below_abs_min(v)
      [] line = 309 -> ph_low_moderate(v)
      [] line = 310 -> ph_suitable(v)
      [] line = 311 -> ph_high_moderate(v)
      [] line = 312 -> ph_not_suitable(v)

\* ---------------------------------------------------------------- program
\* One record per executed statement, in source order: its line, what it
\* does, the name it assigns or overwrites, the name it reads, the literal.
St(line, op, dst, src, val) ==
    [line |-> line, op |-> op, dst |-> dst, src |-> src, val |-> val]

ReadStmts ==
    << St(73, "read", "ph", "ph", 0),
       St(74, "slice", "ph", "ph", 0),
       St(75, "read", "precip", "precip", 0),
       St(76, "read", "tmax", "tmax", 0),
       St(77, "read", "tmin", "tmin", 0),
       St(79, "read", "slope", "slope", 0),
       St(80, "read", "aspect", "aspect", 0) >>

ClimateStmts ==
    << St(139, "copy", "precip_suitability", "precip", 0),
       St(140, "set", "precip_suitability", "precip_suitability", NotSuitable),
       St(141, "set", "precip_suitability", "precip_suitability", Moderate),
       St(142, "set", "precip_suitability", "precip_suitability", Suitable),
       St(171, "copy", "tmax_suitability", "tmax", 0),
       St(172, "set", "tmax_suitability", "tmax_suitability", Suitable),
       St(173, "set", "tmax_suitability", "tmax_suitability", Moderate),
       St(174, "set", "tmax_suitability", "tmax_suitability", NotSuitable),
       St(201, "copy", "tmin_suitability", "tmin", 0),
       St(202, "set", "tmin_suitability", "tmin_suitability", NotSuitable),
       St(203, "set", "tmin_suitability", "tmin_suitability", Moderate),
       St(204, "set", "tmin_suitability", "tmin_suitability", Suitable) >>

TerrainStmts ==
    << St(237, "copy", "slope_suitability", "slope", 0),
       St(238, "set", "slope_suitability", "slope_suitability", Suitable),
       St(239, "set", "slope_suitability", "slope_suitability", Moderate),
       St(240, "set", "slope_suitability", "slope_suitability", NotSuitable),
       St(272, "copy", "aspect_suitability", "aspect", 0),
       St(273, "set", "aspect_suitability", "aspect_suitability", AspectMarker),
       St(274, "set", "aspect_suitability", "aspect_suitability", Suitable),
       St(275, "set", "aspect_suitability", "aspect_suitability", NotSuitable) >>

SoilStmts ==
    << St(306, "copy", "ph_suitability", "ph", 0),
       St(307, "set", "ph_suitability", "ph_suitability", NotSuitable),
       St(308, "set", "ph_suitability", "ph_suitability", NotSuitable),
       St(309, "set", "ph_suitability", "ph_suitability", Moderate),
       St(310, "set", "ph_suitability", "ph_suitability", Suitable),
       St(311, "set", "ph_suitability", "ph_suitability", Moderate),
       St(312, "set", "ph_suitability", "ph_suitability", NotSuitable) >>

CombineStmts ==
    << St(334, "copy", "test", "aspect_suitability", 0),
       St(335, "mask", "test", "precip_suitability", 0),
       St(336, "mask", "test", "tmax_suitability", 0),
       St(337, "mask", "test", "tmin_suitability", 0),
       St(338, "mask", "test", "aspect_suitability", 0),
       St(339, "mask", "test", "slope_suitability", 0),
       St(340, "mask", "test", "ph_suitability", 0),
       St(341, "sum", "combined", "aspect_suitability", 0),
       St(342, "where", "result", "test", 0) >>

Program == ReadStmts \o ClimateStmts \o TerrainStmts \o SoilStmts \o CombineStmts

\* The order of the operands of line 341.
SumOperands ==
    << "aspect_suitability", "slope_suitability", "precip_suitability",
       "tmax_suitability", "tmin_suitability", "ph_suitability" >>

Done == Len(Program) + 1

Running == raised = "none" /\ pc <= Len(Program)

Stmt == Program[pc]

\* The array a name is bound to.
G(n) == heap[env[n]]

Bound(n) == env[n] # 0

\* ------------------------------------------------------- array operations
\* Faulty variant of copy(): plain assignment, y = x, binds the same object.
ndarray_alias(h, id) == [heap |-> h, id |-> id]

\* ndarray.copy(): a fresh object holding the same values.
ndarray_copy(h, id) == [heap |-> Append(h, h[id]), id |-> Len(h) + 1]

\* a[mask(a)] = x, cell by cell.
Overwrite(g, line, x) ==
    [g EXCEPT !.v = [c \in DOMAIN g.v |-> IF Cond(line, g.v[c]) THEN x ELSE g.v[c]]]

\* a[m == 0] = 0 for a mask array m of a's shape.
MaskZero(g, m) ==
    [g EXCEPT !.v = [c \in DOMAIN g.v |-> IF is_zero(m.v[c]) THEN 0 ELSE g.v[c]]]

\* a + b + ... of equally shaped arrays, left to right.  (Line 341 is only
\* reached with all six shapes equal: lines 335-340 raise otherwise.)
RECURSIVE SumAt(_, _, _)
SumAt(h, ids, c) ==
    IF ids = <<>> THEN 0 ELSE h[Head(ids)].v[c] + SumAt(h, Tail(ids), c)

\* Faulty variant of line 341: the last operand left out.
SumGridsDropLast(h, ids) ==
    [shape |-> h[ids[1]].shape,
     v |-> [c \in Cells(h[ids[1]].shape) |-> SumAt(h, SubSeq(ids, 1, Len(ids) - 1), c)]]

SumGrids(h, ids) ==
    [shape |-> h[ids[1]].shape,
     v |-> [c \in Cells(h[ids[1]].shape) |-> SumAt(h, ids, c)]]

\* np.where(t > 0, a, 0)
Where(t, a) ==
    [shape |-> t.shape,
     v |-> [c \in DOMAIN t.v |-> IF is_positive(t.v[c]) THEN a.v[c] ELSE 0]]

\* ----------------------------------------------------------------- inputs
\* Values a raster cell is drawn from: each threshold of the factor, its
\* two neighbours at the model's resolution, values inside every band, the
\* sentinels (-1 flat aspect, -999 pH no-data) and the literals the script
\* itself writes (0, 1, 2, -99).
Wide(f) ==
    CASE f = "precip" -> {-1000, 0, 1000, 2000, 299999, 300000, 300001, 499999,
                          500000, 500001, 1000000, 1999999, 2000000, 2000001,
                          2499999, 2500000, 2500001, 3000000}
      [] f = "tmax"   -> {-5000, 0, 1000, 2000, 39000, 39999, 40000, 40001,
                          44999, 45000, 45001, 50000}
      [] f = "tmin"   -> {-5000, 0, 1000, 2000, 9999, 10000, 10001, 13999,
                          14000, 14001, 20000}
      [] f = "slope"  -> {0, 1000, 1999, 2000, 2001, 14999, 15000, 15001, 45000}
      [] f = "aspect" -> {-99000, -1000, 0, 1000, 2000, 90000, 112499, 112500,
                          112501, 150000, 202499, 202500, 202501, 270000, 360000}
      [] f = "ph"     -> {-999000, 0, 1000, 2000, 4499, 4500, 4501, 4999, 5000,
                          5001, 5799, 5800, 5801, 6999, 7000, 7001, 8500}

\* A cell inside every factor's optimum band.
Optimum ==
    [precip |-> 1000000, tmax |-> 30000, tmin |-> 18000, slope |-> 1000,
     aspect |-> 90000, ph |-> 5500]

\* One value per band of each factor (for aspect: north-facing, south-facing
\* and flat).
NarrowCells ==
    { [precip |-> a, tmax |-> b, tmin |-> c, slope |-> d, aspect |-> e, ph |-> g] :
        a \in {1000000, 400000, 100000}, b \in {30000, 42000, 47000},
        c \in {18000, 12000, 5000},      d \in {1000, 10000, 20000},
        e \in {90000, 150000, -1000},    g \in {5500, 6500, 8000} }

\* One factor sweeps its Wide values, the other five are optimum.
SweepCells ==
    UNION { {[Optimum EXCEPT ![f] = x] : x \in Wide(f)} : f \in Factors }

ProbeCells == NarrowCells \cup SweepCells

\* The second cell of the row.
CompanionCells ==
    { Optimum,
      [Optimum EXCEPT !["ph"] = PhNoData],
      [precip |-> 400000, tmax |-> 42000, tmin |-> 12000, slope |-> 10000,
       aspect |-> 270000, ph |-> 6500] }

\* A raster whose cell <<1,1>> is p, whose cell <<1,2>> is q, the rest m.
TwoCellGrid(shape, p, q, m) ==
    [shape |-> shape,
     v |-> [c \in Cells(shape) |->
              IF c = <<1, 1>> THEN p ELSE IF c = <<1, 2>> THEN q ELSE m]]

\* Value family: five 1x2 rasters and a 2x3 pH raster (one row and one
\* column more than the others, as line 74 expects), its margin no-data.
ValueRasters ==
    { [f \in Factors |->
         IF f = "ph" THEN TwoCellGrid(<<2, 3>>, p[f], q[f], PhNoData)
                     ELSE TwoCellGrid(<<1, 2>>, p[f], q[f], 0)] :
        p \in ProbeCells, q \in CompanionCells }

\* Shape family: each raster is the reference shape, or has one more column,
\* or one more row and column; every cell optimum.
Shapes == (1..MaxH) \X (1..MaxW)

Extra == {<<0, 0>>, <<0, 1>>, <<1, 1>>}

ShapeRasters ==
    { [f \in Factors |->
         Fill(<<base[1] + d[f][1], base[2] + d[f][2]>>, Optimum[f])] :
        base \in Shapes, d \in [Factors -> Extra] }

\* ------------------------------------------------------------------- init
Init ==
    /\ pc = 1
    /\ heap = <<>>
    /\ env = [n \in Names |-> 0]
    /\ file \in ValueRasters \cup ShapeRasters
    /\ raised = "none"
    /\ labelled = {}

\* ---------------------------------------------------------------- actions
\* lines 73, 75-80: x = gdal.Open(path).ReadAsArray()
ReadAsArray ==
    /\ Running
    /\ Stmt.op = "read"
    /\ heap' = Append(heap, file[Stmt.src])
    /\ env' = [env EXCEPT ![Stmt.dst] = Len(heap) + 1]
    /\ pc' = pc + 1
    /\ UNCHANGED <<file, raised, labelled>>

\* line 74: ph = ph[:-1,:-1]
Slice ==
    /\ Running
    /\ Stmt.op = "slice"
    /\ heap' = Append(heap, TrimLast(G(Stmt.src)))
    /\ env' = [env EXCEPT ![Stmt.dst] = Len(heap) + 1]
    /\ pc' = pc + 1
    /\ UNCHANGED <<file, raised, labelled>>

\* lines 139, 171, 201, 237, 272, 306, 334: y = x.copy()
Copy ==
    /\ Running
    /\ Stmt.op = "copy"
    /\ LET r == ndarray_copy(heap, env[Stmt.src])
       IN  /\ heap' = r.heap
           /\ env' = [env EXCEPT ![Stmt.dst] = r.id]
    /\ pc' = pc + 1
    /\ UNCHANGED <<file, raised, labelled>>

\* lines 140-142, 172-174, 202-204, 238-240, 273-275, 307-312:
\* y[mask(y)] = literal.  labelled records the cells a step gave a class.
Set ==
    /\ Running
    /\ Stmt.op = "set"
    /\ heap' = [heap EXCEPT ![env[Stmt.dst]] = Overwrite(@, Stmt.line, Stmt.val)]
    /\ labelled' = labelled \cup
         IF Stmt.val \in Classes
         THEN {<<Stmt.dst, c>> : c \in {x \in DOMAIN G(Stmt.dst).v :
                                          Cond(Stmt.line, G(Stmt.dst).v[x])}}
         ELSE {}
    /\ pc' = pc + 1
    /\ UNCHANGED <<env, file, raised>>

\* lines 335-340: test[x_suitability == 0] = 0, shapes agreeing
Mask ==
    /\ Running
    /\ Stmt.op = "mask"
    /\ G(Stmt.src).shape = G(Stmt.dst).shape
    /\ heap' = [heap EXCEPT ![env[Stmt.dst]] = MaskZero(@, G(Stmt.src))]
    /\ pc' = pc + 1
    /\ UNCHANGED <<env, file, raised, labelled>>

\* lines 335-340: a boolean index of another shape raises IndexError
MaskShapeError ==
    /\ Running
    /\ Stmt.op = "mask"
    /\ G(Stmt.src).shape # G(Stmt.dst).shape
    /\ raised' = "IndexError"
    /\ UNCHANGED <<pc, heap, env, file, labelled>>

\* line 341: combined = aspect_suitability + slope_suitability + ...
Sum ==
    /\ Running
    /\ Stmt.op = "sum"
    /\ heap' = Append(heap, SumGrids(heap, [i \in 1..Len(SumOperands) |-> env[SumOperands[i]]]))
    /\ env' = [env EXCEPT ![Stmt.dst] = Len(heap) + 1]
    /\ pc' = pc + 1
    /\ UNCHANGED <<file, raised, labelled>>

\* line 342: result = np.where(test > 0, combined, 0)
WhereStep ==
    /\ Running
    /\ Stmt.op = "where"
    /\ heap' = Append(heap, Where(G("test"), G("combined")))
    /\ env' = [env EXCEPT ![Stmt.dst] = Len(heap) + 1]
    /\ pc' = pc + 1
    /\ UNCHANGED <<file, raised, labelled>>

Next ==
    \/ ReadAsArray
    \/ Slice
    \/ Copy
    \/ Set
    \/ Mask
    \/ MaskShapeError
    \/ Sum
    \/ WhereStep

Spec == Init /\ [][Next]_vars

\* ============================================================ properties
\* The statement of line l has been executed.
After(l) == \E i \in 1..Len(Program) : Program[i].line = l /\ pc > i

Finished == pc = Done

\* The last overwrite of each factor's chain.
LastLine(f) ==
    CASE f = "precip" -> 142
      [] f = "tmax"   -> 174
      [] f = "tmin"   -> 204
      [] f = "slope"  -> 240
      [] f = "aspect" -> 275
      [] f = "ph"     -> 312

\* The value of cell c of the array bound to n.
At(n, c) == G(n).v[c]

GridCells(n) == DOMAIN G(n).v

\* ---- the bands of the classification table, on the original value
TableSuitable(f, v) ==
    CASE f = "precip" -> v >= 500000 /\ v <= 2000000
      [] f = "tmax"   -> v < 40000
      [] f = "tmin"   -> v >= 14000
      [] f = "slope"  -> v <= 2000
      [] f = "aspect" -> ~(v > 112500 /\ v < 202500)
      [] f = "ph"     -> v >= 5000 /\ v < 5800

TableNotSuitable(f, v) ==
    CASE f = "precip" -> v < 300000 \/ v >= 2500000
      [] f = "tmax"   -> v >= 45000
      [] f = "tmin"   -> v < 10000
      [] f = "slope"  -> v >= 15000
      [] f = "aspect" -> v > 112500 /\ v < 202500
      [] f = "ph"     -> v = -999000 \/ v < 4500 \/ v >= 7000

TableClass(f, v) ==
    IF TableNotSuitable(f, v) THEN 0
    ELSE IF TableSuitable(f, v) THEN 2000
    ELSE 1000

\* C1: after a factor's last classification step every cell of its
\* suitability grid is 0, 1 or 2.
C1_OutputInClasses ==
    \A f \in Factors :
        After(LastLine(f)) => \A c \in GridCells(Suit(f)) : At(Suit(f), c) \in {0, 1000, 2000}

\* C2: when the run has finished, every cell at which at least one of the
\* six suitability grids holds 0 has combined result 0.
C2_Veto ==
    Finished =>
        \A c \in GridCells("result") :
            (\E f \in Factors : At(Suit(f), c) = 0) => At("result", c) = 0

\* C2 witness: a finished run with a cell vetoed by one factor while
\* another factor is Suitable there.
C2_Witness ==
    /\ Finished
    /\ \E c \in GridCells("result") :
          /\ \E f \in Factors : At(Suit(f), c) = 0
          /\ \E f \in Factors : At(Suit(f), c) = 2000
          /\ At("result", c) = 0

SumOfSix(c) ==
    At("precip_suitability", c) + At("tmax_suitability", c) + At("tmin_suitability", c)
    + At("slope_suitability", c) + At("aspect_suitability", c) + At("ph_suitability", c)

\* C3: when the run has finished, a cell where all six suitability grids are
\* >= 1 holds their sum, which lies in [6, 12]; and every cell of the result
\* is 0 or lies in [6, 12].
C3_Sum ==
    Finished =>
        \A c \in GridCells("result") :
            /\ (\A f \in Factors : At(Suit(f), c) >= 1000) =>
                   /\ At("result", c) = SumOfSix(c)
                   /\ At("result", c) >= 6000
                   /\ At("result", c) <= 12000
            /\ \/ At("result", c) = 0
               \/ (At("result", c) >= 6000 /\ At("result", c) <= 12000)

\* C3 witness: a finished run with a cell no factor vetoes, some factor
\* Moderate, whose result is the sum.
C3_Witness ==
    /\ Finished
    /\ \E c \in GridCells("result") :
          /\ \A f \in Factors : At(Suit(f), c) >= 1000
          /\ \E f \in Factors : At(Suit(f), c) = 1000
          /\ At("result", c) = SumOfSix(c)
          /\ At("result", c) < 12000

\* C4: after line 275 an aspect cell is 0 exactly when its original angle
\* is strictly inside (112.5, 202.5), and 2 for every other value.
C4_AspectTable ==
    After(275) =>
        \A c \in GridCells("aspect_suitability") :
            At("aspect_suitability", c) = TableClass("aspect", At("aspect", c))

\* C5: after line 142 a precipitation cell holds the class the table gives
\* its original value, 500 <= v <= 2000 being Suitable.
C5_PrecipTable ==
    After(142) =>
        \A c \in GridCells("precip_suitability") :
            At("precip_suitability", c) = TableClass("precip", At("precip", c))

\* C6: after line 312 a pH cell holds the class the table gives its
\* original value.
C6_PhTable ==
    After(312) =>
        \A c \in GridCells("ph_suitability") :
            At("ph_suitability", c) = TableClass("ph", At("ph", c))

\* C6 witness: the six overwrites are done and the cell at the upper optimum
\* bound 5.8 is Moderate beside a no-data cell or an optimum cell.
C6_Witness ==
    /\ After(312)
    /\ \E c \in GridCells("ph_suitability") :
          At("ph", c) = 5800 /\ At("ph_suitability", c) = 1000
    /\ \E c \in GridCells("ph_suitability") :
          At("ph", c) \in {-999000, 5500} /\ At("ph_suitability", c) \in {0, 2000}

\* C7: every raster in use has the shape it was read with (nothing is
\* trimmed), and a combined result exists only if the six rasters on disk
\* have one shape.
C7_ShapeMismatchIsError ==
    /\ \A f \in Factors : Bound(f) => G(f).shape = file[f].shape
    /\ Bound("result") => \A f \in Factors : file[f].shape = file["aspect"].shape

\* C8: no classification or combination step changes a source grid; a
\* suitability grid has the shape of its source; no combination step changes
\* a suitability grid.
C8_InputsNotMutated ==
    [][ (pc <= Len(Program) /\ Stmt.line >= 139) =>
          /\ \A f \in Factors : env'[f] = env[f] /\ heap'[env[f]] = heap[env[f]]
          /\ \A f \in Factors :
                env'[Suit(f)] # 0 => heap'[env'[Suit(f)]].shape = heap'[env'[f]].shape
          /\ Stmt.line >= 334 =>
                \A f \in Factors : env'[Suit(f)] = env[Suit(f)]
                                   /\ heap'[env[Suit(f)]] = heap[env[Suit(f)]] ]_vars

\* C8 witness: the run has finished, every suitability grid differs from its
\* source, and every source still equals what was read (pH: trimmed).
C8_Witness ==
    /\ Finished
    /\ \A f \in Factors : G(Suit(f)) # G(f)
    /\ \A f \in Factors \ {"ph"} : G(f) = file[f]
    /\ G("ph") = TrimLast(file["ph"])
    /\ G("test") # G("aspect_suitability")

\* C9: when the run has finished, a cell whose six raw values are all in
\* the Suitable band has result 12, and a cell with exactly one raw value in
\* the Not Suitable band and the other five Suitable has result 0.
C9_EndToEnd ==
    Finished =>
        \A c \in GridCells("result") :
            /\ (\A f \in Factors : TableSuitable(f, At(f, c))) => At("result", c) = 12000
            /\ (\E f \in Factors :
                   /\ TableNotSuitable(f, At(f, c))
                   /\ \A g \in Factors \ {f} : TableSuitable(g, At(g, c)))
               => At("result", c) = 0

====
